---- MODULE Spec2Model ----
(***************************************************************************)
(* CheeseBot: the daily-post scheduler (src/bot.py), the computation of    *)
(* the time until the next post (src/bot.py), the random cheese picker and *)
(* the detail extractor (src/scraper.py).                                  *)
(*                                                                         *)
(* Python strings are sequences of one-character strings, so that split,   *)
(* strip, startswith and int() are computed rather than assumed.  Instants *)
(* are whole seconds since midnight UTC of day 0.                          *)
(***************************************************************************)
EXTENDS Integers, Sequences, FiniteSets, TLC

VARIABLES
    config,          \* bot.py: the global config dict
    file,            \* the content of config.json
    clock,           \* UTC instant at which the loop is free to run the next tick
    next_iteration,  \* tasks.loop: scheduled instant of the next iteration
    ticks,           \* number of iterations of daily_cheese_task so far
    posts,           \* messages sent to the channel by daily_cheese_task
    lastTick,        \* what the latest iteration of daily_cheese_task did
    running,         \* the periodic task is alive
    nr,              \* seconds_until_next_run: inputs and result
    rc,              \* get_random_cheese: the state of one call
    ex,              \* get_cheese_details: page and record
    cmd              \* the latest slash command or persistence call and its outcome

vars == <<config, file, clock, next_iteration, ticks, posts, lastTick, running, nr, rc, ex,
          cmd>>

None == "None"

(***************************************************************************)
(* Bounds of the model.                                                    *)
(***************************************************************************)
MaxTicks == 3

MaxDay == 1

\* letters of the alphabet the listing pages are drawn from (26 in the source)
NumLetters == 3

\* largest max_retries tried
MaxRetries == 5

(***************************************************************************)
(* Python string and integer helpers.                                      *)
(***************************************************************************)
Digits == <<"0", "1", "2", "3", "4", "5", "6", "7", "8", "9">>

IsDigit(c) == \E i \in 1..10 : Digits[i] = c

DigitValue(c) == (CHOOSE i \in 1..10 : Digits[i] = c) - 1

\* int(s) succeeds: a non-empty run of decimal digits
IsIntLiteral(s) == Len(s) > 0 /\ \A i \in 1..Len(s) : IsDigit(s[i])

RECURSIVE ToInt(_)
ToInt(s) == IF Len(s) = 0 THEN 0
            ELSE 10 * ToInt(SubSeq(s, 1, Len(s) - 1)) + DigitValue(s[Len(s)])

\* str.split(sep) for a one-character separator
RECURSIVE Split(_, _)
Split(s, sep) ==
    IF \A i \in 1..Len(s) : s[i] # sep THEN <<s>>
    ELSE LET k == CHOOSE i \in 1..Len(s) : s[i] = sep /\ \A j \in 1..(i - 1) : s[j] # sep
         IN  <<SubSeq(s, 1, k - 1)>> \o Split(SubSeq(s, k + 1, Len(s)), sep)

Max(a, b) == IF a >= b THEN a ELSE b

\* s.startswith(pre)
StartsWith(s, pre) == Len(pre) <= Len(s) /\ SubSeq(s, 1, Len(pre)) = pre

\* sub in s
Contains(s, sub) ==
    \E i \in 1..(Len(s) - Len(sub) + 1) : SubSeq(s, i, i + Len(sub) - 1) = sub

(***************************************************************************)
(* Time.                                                                   *)
(***************************************************************************)
SecondsPerDay == 24 * 3600

\* the instant day d, hh:mm:ss UTC
At(d, hh, mm, ss) == d * SecondsPerDay + hh * 3600 + mm * 60 + ss

\* timedelta(hours=8)
PhOffsetHours == 8

\* @tasks.loop(minutes=1)
LoopSeconds == 60

\* asyncio.sleep(65)
SuppressSleepShort == 65 - 25

SuppressSleep == 65

\* requests.get(BASE_URL, timeout=10)
TimeoutDaily == 10

\* requests.get(cheese_url, timeout=15)
TimeoutDetails == 15

\* datetime.hour and datetime.minute of an instant
HourOf(t) == (t \div 3600) % 24

MinuteOf(t) == (t \div 60) % 60

\* datetime.utcnow() + timedelta(hours=8)
NowPhNoOffset(now_utc) == now_utc

NowPh(now_utc) == now_utc + PhOffsetHours * 3600

\* hour, minute = map(int, s.split(":")): the pair; ok is FALSE when the unpacking
\* or an int() raises ValueError
ParseTime(s) ==
    LET parts == Split(s, ":")
    IN  IF Len(parts) = 2 /\ IsIntLiteral(parts[1]) /\ IsIntLiteral(parts[2])
        THEN [ok |-> TRUE, hour |-> ToInt(parts[1]), minute |-> ToInt(parts[2])]
        ELSE [ok |-> FALSE, hour |-> -1, minute |-> -1]

(***************************************************************************)
(* Configuration and its persistence.                                      *)
(***************************************************************************)
EmptyConfig == [k \in {} |-> None]

Put(cfg, k, v) == [x \in (DOMAIN cfg) \cup {k} |-> IF x = k THEN v ELSE cfg[x]]

Del(cfg, k) == [x \in (DOMAIN cfg) \ {k} |-> cfg[x]]

\* str(n) of an int that is not negative
RECURSIVE IntToString(_)
IntToString(n) ==
    IF n < 10 THEN << Digits[n + 1] >>
    ELSE IntToString(n \div 10) \o << Digits[(n % 10) + 1] >>

Quote == "\""

Backslash == "\\"

\* the keys the bot stores, in the order json.dump writes them, with their text
ConfigKeys ==
    << [key |-> "cheese_channel", text |-> << "c", "h", "e", "e", "s", "e", "_", "c", "h", "a", "n", "n", "e", "l" >>],
       [key |-> "cheese_time", text |-> << "c", "h", "e", "e", "s", "e", "_", "t", "i", "m", "e" >>],
       [key |-> "cheese_role_id", text |-> << "c", "h", "e", "e", "s", "e", "_", "r", "o", "l", "e", "_", "i", "d" >>] >>

\* json.dump of a str that escapes nothing
JsonEscapeNone(s) == s

\* json.dump of a str: quoted, with quote, backslash and newline escaped
RECURSIVE JsonEscape(_)
JsonEscape(s) ==
    IF Len(s) = 0 THEN << >>
    ELSE (IF s[1] \in {Quote, Backslash} THEN << Backslash, s[1] >>
          ELSE IF s[1] = "\n" THEN << Backslash, "n" >>
          ELSE << s[1] >>)
         \o JsonEscape(Tail(s))

\* json.dump of one value: cheese_time is a str, the ids are ints
JsonValue(key, v) ==
    IF key = "cheese_time" THEN << Quote >> \o JsonEscape(v) \o << Quote >>
    ELSE IntToString(v)

\* the members of the object from the i-th key on, one per line, indent=4
RECURSIVE JsonMembers(_, _, _)
JsonMembers(data, i, first) ==
    IF i > Len(ConfigKeys) THEN << >>
    ELSE IF ConfigKeys[i].key \notin DOMAIN data THEN JsonMembers(data, i + 1, first)
    ELSE (IF first THEN << >> ELSE << "," >>)
         \o << "\n", " ", " ", " ", " ", Quote >> \o ConfigKeys[i].text \o << Quote, ":", " " >>
         \o JsonValue(ConfigKeys[i].key, data[ConfigKeys[i].key])
         \o JsonMembers(data, i + 1, FALSE)

\* json.dump(data, f, indent=4): the text written
json_dump(data) ==
    IF DOMAIN data = {} THEN << "{", "}" >>
    ELSE << "{" >> \o JsonMembers(data, 1, TRUE) \o << "\n", "}" >>

JsonWhitespace == {" ", "\t", "\n", "\r"}

RECURSIVE SkipWs(_)
SkipWs(s) == IF Len(s) > 0 /\ s[1] \in JsonWhitespace THEN SkipWs(Tail(s)) ELSE s

\* the parser stopped: json.JSONDecodeError
JsonError == [ok |-> FALSE, rest |-> << >>]

\* a JSON string after its opening quote
RECURSIVE ParseString(_, _)
ParseString(s, acc) ==
    IF Len(s) = 0 \/ s[1] = "\n" THEN JsonError
    ELSE IF s[1] = Quote THEN [ok |-> TRUE, v |-> acc, rest |-> Tail(s)]
    ELSE IF s[1] = Backslash
    THEN IF Len(s) < 2 THEN JsonError
         ELSE IF s[2] \in {Quote, Backslash}
         THEN ParseString(SubSeq(s, 3, Len(s)), Append(acc, s[2]))
         ELSE IF s[2] = "n" THEN ParseString(SubSeq(s, 3, Len(s)), Append(acc, "\n"))
         ELSE JsonError
    ELSE ParseString(Tail(s), Append(acc, s[1]))

\* the longest run of digits s starts with
RECURSIVE DigitPrefix(_)
DigitPrefix(s) ==
    IF Len(s) > 0 /\ IsDigit(s[1]) THEN << s[1] >> \o DigitPrefix(Tail(s)) ELSE << >>

\* a JSON value: a string or an integer that is not negative
ParseValue(s) ==
    IF Len(s) = 0 THEN JsonError
    ELSE IF s[1] = Quote THEN ParseString(Tail(s), << >>)
    ELSE LET d == DigitPrefix(s)
         IN  IF Len(d) = 0 \/ (Len(d) > 1 /\ d[1] = "0") THEN JsonError
             ELSE [ok |-> TRUE, v |-> ToInt(d), rest |-> SubSeq(s, Len(d) + 1, Len(s))]

\* the key of the config a member name stands for
KeyOf(text) ==
    IF \E i \in 1..Len(ConfigKeys) : ConfigKeys[i].text = text
    THEN ConfigKeys[CHOOSE i \in 1..Len(ConfigKeys) : ConfigKeys[i].text = text].key
    ELSE "other"

\* the members of an object, s standing before a member name
RECURSIVE ParseMembers(_, _)
ParseMembers(s, obj) ==
    LET s1 == SkipWs(s)
        k  == IF Len(s1) > 0 /\ s1[1] = Quote THEN ParseString(Tail(s1), << >>) ELSE JsonError
        s2 == SkipWs(k.rest)
        v  == IF k.ok /\ Len(s2) > 0 /\ s2[1] = ":" THEN ParseValue(SkipWs(Tail(s2))) ELSE JsonError
        s3 == SkipWs(v.rest)
    IN  IF ~v.ok \/ Len(s3) = 0 THEN JsonError
        ELSE IF s3[1] = "," THEN ParseMembers(Tail(s3), Put(obj, KeyOf(k.v), v.v))
        ELSE IF s3[1] = "}" /\ Len(SkipWs(Tail(s3))) = 0
        THEN [ok |-> TRUE, obj |-> Put(obj, KeyOf(k.v), v.v)]
        ELSE JsonError

\* json.load(f) of a text: the object, or JSONDecodeError.  The texts read here
\* are objects of strings and integers, or no JSON document at all.
json_load(text) ==
    LET s  == SkipWs(text)
        s1 == SkipWs(Tail(s))
    IN  IF Len(s) = 0 \/ s[1] # "{" THEN JsonError
        ELSE IF Len(s1) > 0 /\ s1[1] = "}"
        THEN IF Len(SkipWs(Tail(s1))) = 0 THEN [ok |-> TRUE, obj |-> EmptyConfig]
             ELSE JsonError
        ELSE ParseMembers(s1, EmptyConfig)

\* config.json: absent, a text, or bytes that do not decode as text
NoFile == [kind |-> "missing"]

TextFile(text) == [kind |-> "text", text |-> text]

Undecodable == [kind |-> "bytes"]

\* what a write that failed after open() truncated the file leaves: a proper
\* prefix of the JSON text
Malformed == TextFile(<< "{" >>)

JsonFile(obj) == TextFile(json_dump(obj))

\* nothing is caught
LoadCatchesNone(exc) == FALSE

\* except json.JSONDecodeError
LoadCatches(exc) == exc = "JSONDecodeError"

\* load_config(): what the call returns, or the exception it raises.  {} when
\* config.json is missing or does not parse; reading bytes that do not decode
\* raises UnicodeDecodeError, which is no JSONDecodeError.
load_config(f) ==
    LET Return(cfg) == [kind |-> "return", v |-> cfg, exc |-> "none"]
        Raised(exc) ==
            IF LoadCatches(exc) THEN Return(EmptyConfig)
            ELSE [kind |-> "raise", v |-> EmptyConfig, exc |-> exc]
    IN  IF f.kind = "missing" THEN Return(EmptyConfig)
        ELSE IF f.kind = "bytes" THEN Raised("UnicodeDecodeError")
        ELSE IF json_load(f.text).ok THEN Return(json_load(f.text).obj)
        ELSE Raised("JSONDecodeError")

\* a save_config that writes nothing
SaveNothing(f, data, w) == f

\* save_config(data) on the file f; w is what the file system does: the write
\* succeeds, open() fails (file untouched), or the write fails after open()
\* truncated the file.  The exception is logged and swallowed.
save_config(f, data, w) ==
    CASE w = "ok" -> JsonFile(data)
      [] w = "open_error" -> f
      [] OTHER -> Malformed

\* the outcomes drawn by the commands
WriteOutcomes == {"ok", "write_error"}

(***************************************************************************)
(* The guild.                                                              *)
(***************************************************************************)
Channels == {101, 102}

\* bot.get_channel(id) is not None
ExistingChannels == {101}

Roles == {201, 202}

\* guild.get_role(id) is not None
ExistingRoles == {201}

(***************************************************************************)
(* Time strings.                                                           *)
(***************************************************************************)
T0900 == <<"0", "9", ":", "0", "0">>

T0902 == <<"0", "9", ":", "0", "2">>

T0800 == <<"0", "8", ":", "0", "0">>

T91 == <<"9", ":", "1">>

T2400 == <<"2", "4", ":", "0", "0">>

TNoColon == <<"0", "9", "0", "0">>

TJunk == <<"9", "x", ":", "0", "0">>

\* what an admin may type into /setcheesetime
TimeInputs == {T0900, T0902, T91, T2400, TNoColon}

\* datetime.strptime(s, "%H:%M") succeeds: one or two digits, 0..23, a colon,
\* one or two digits, 0..59, and nothing else
StrptimeOk(s) ==
    LET parts == Split(s, ":")
    IN  /\ Len(parts) = 2
        /\ IsIntLiteral(parts[1]) /\ Len(parts[1]) <= 2 /\ ToInt(parts[1]) <= 23
        /\ IsIntLiteral(parts[2]) /\ Len(parts[2]) <= 2 /\ ToInt(parts[2]) <= 59

(***************************************************************************)
(* daily_cheese_task: one iteration of the periodic task.                  *)
(***************************************************************************)
\* What the network and the platform do during one iteration.
TickEnvs ==
    [daily   : {"ok", "request_error", "value_error"},
     d1      : {0, TimeoutDaily},
     details : {"ok", "request_error"},
     d2      : {0, TimeoutDetails},
     send    : {"ok", "error"}]

\* now_ph.hour == set_hour and now_ph.minute == set_minute
TimeMatch(now_ph, set) == HourOf(now_ph) = set.hour /\ MinuteOf(now_ph) = set.minute

TickResult(outcome, daily_calls, details_calls, send_calls, sent, slept, dur, ping, escaped) ==
    [outcome |-> outcome, daily_calls |-> daily_calls, details_calls |-> details_calls,
     send_calls |-> send_calls, sent |-> sent, slept |-> slept, dur |-> dur,
     ping |-> ping, escaped |-> escaped]

\* except Exception: every exception raised inside the try block is logged
ExceptCatches(exc) == TRUE

\* if "cheese_channel" not in config or "cheese_time" not in config: return
NotConfiguredTimeOnly(cfg) == "cheese_time" \notin DOMAIN cfg

NotConfigured(cfg) == "cheese_channel" \notin DOMAIN cfg \/ "cheese_time" \notin DOMAIN cfg

\* The try block of the task at instant now_utc with configuration cfg; a
\* missing key is Python's KeyError.
TaskBody(cfg, now_utc, e) ==
    LET now_ph == NowPh(now_utc)
        Error(exc, dc, tc, sc, dur) ==
            TickResult("error", dc, tc, sc, 0, 0, dur, FALSE, ~ExceptCatches(exc))
    IN  IF "cheese_time" \notin DOMAIN cfg THEN Error("KeyError", 0, 0, 0, 0)
        ELSE LET set == ParseTime(cfg["cheese_time"])
        IN  IF ~set.ok THEN Error("ValueError", 0, 0, 0, 0)
            ELSE IF ~TimeMatch(now_ph, set)
            THEN TickResult("waiting", 0, 0, 0, 0, 0, 0, FALSE, FALSE)
            ELSE IF e.daily = "request_error" THEN Error("RequestException", 1, 0, 0, e.d1)
            ELSE IF e.daily = "value_error" THEN Error("ValueError", 1, 0, 0, e.d1)
            ELSE IF e.details # "ok" THEN Error("RequestException", 1, 1, 0, e.d1 + e.d2)
            ELSE IF "cheese_channel" \notin DOMAIN cfg
            THEN Error("KeyError", 1, 1, 0, e.d1 + e.d2)
            ELSE IF cfg["cheese_channel"] \notin ExistingChannels
            THEN TickResult("no_channel", 1, 1, 0, 0, SuppressSleep,
                            e.d1 + e.d2 + SuppressSleep, FALSE, FALSE)
            ELSE IF e.send # "ok" THEN Error("HTTPException", 1, 1, 1, e.d1 + e.d2)
            ELSE TickResult("posted", 1, 1, 1, 1, SuppressSleep,
                            e.d1 + e.d2 + SuppressSleep,
                            "cheese_role_id" \in DOMAIN cfg
                                /\ cfg["cheese_role_id"] \in ExistingRoles,
                            FALSE)

\* The body of the task.
daily_cheese_task(cfg, now_utc, e) ==
    IF NotConfigured(cfg)
    THEN TickResult("skipped", 0, 0, 0, 0, 0, 0, FALSE, FALSE)
    ELSE TaskBody(cfg, now_utc, e)

QuietEnv == [daily |-> "ok", d1 |-> 0, details |-> "ok", d2 |-> 0, send |-> "ok"]

\* The environments that can make a difference to the iteration: one when the
\* body returns without calling get_cheese_of_the_day.
EnvsAt(cfg, now_utc) ==
    IF daily_cheese_task(cfg, now_utc, QuietEnv).daily_calls = 0 THEN {QuietEnv} ELSE TickEnvs

NoTick == [start |-> -1] @@ TickResult("none", 0, 0, 0, 0, 0, 0, FALSE, FALSE)

\* tasks.loop: an iteration starts at its scheduled instant, or as soon as the
\* previous body has returned when that is later; the schedule advances by the
\* period from the previous scheduled instant.
Tick ==
    /\ running
    /\ ticks < MaxTicks
    /\ \E e \in EnvsAt(config, Max(clock, next_iteration)) :
         LET start == Max(clock, next_iteration)
             r     == daily_cheese_task(config, start, e)
         IN  /\ lastTick' = [start |-> start] @@ r
             /\ posts' = IF r.sent = 1
                         THEN Append(posts, [start |-> start,
                                             channel |-> config["cheese_channel"],
                                             ping |-> r.ping])
                         ELSE posts
             /\ clock' = start + r.dur
             /\ running' = ~r.escaped
    /\ next_iteration' = next_iteration + LoopSeconds
    /\ ticks' = ticks + 1
    /\ UNCHANGED <<config, file, nr, rc, ex, cmd>>

(***************************************************************************)
(* Admin commands.                                                         *)
(***************************************************************************)
\* /setcheesechannel by a user with (perm) or without manage_channels: what the
\* handler does to config and config.json
SetCheeseChannel(ch, perm, w) ==
    IF perm
    THEN /\ config' = Put(config, "cheese_channel", ch)
         /\ file' = save_config(file, config', w)
    ELSE UNCHANGED <<config, file>>

\* /setcheesetime that stores whatever is typed
SetCheeseTimeUnchecked(time, perm, w) ==
    IF perm
    THEN /\ config' = Put(config, "cheese_time", time)
         /\ file' = save_config(file, config', w)
    ELSE UNCHANGED <<config, file>>

\* the try block of /setcheesetime raises no ValueError
TimeAccepted(time) ==
    /\ StrptimeOk(time)
    /\ ParseTime(time).ok
    /\ ParseTime(time).hour \in 0..23 /\ ParseTime(time).minute \in 0..59

\* /setcheesetime
SetCheeseTime(time, perm, w) ==
    IF perm /\ TimeAccepted(time)
    THEN /\ config' = Put(config, "cheese_time", time)
         /\ file' = save_config(file, config', w)
    ELSE UNCHANGED <<config, file>>

\* /setcheeserole by a user with (perm) or without manage_roles
SetCheeseRole(role, perm, w) ==
    IF perm
    THEN /\ config' = Put(config, "cheese_role_id", role)
         /\ file' = save_config(file, config', w)
    ELSE UNCHANGED <<config, file>>

\* /removecheeserole
RemoveCheeseRole(perm, w) ==
    IF perm /\ "cheese_role_id" \in DOMAIN config
    THEN /\ config' = Del(config, "cheese_role_id")
         /\ file' = save_config(file, config', w)
    ELSE UNCHANGED <<config, file>>

\* the two commands that change what the periodic task does, as they interleave
\* with it; their replies are not recorded here
setcheesechannel ==
    \E ch \in Channels, perm \in BOOLEAN, w \in WriteOutcomes :
        /\ SetCheeseChannel(ch, perm, w)
        /\ UNCHANGED <<clock, next_iteration, ticks, posts, lastTick, running, nr, rc, ex, cmd>>

setcheesetime ==
    \E time \in TimeInputs, perm \in BOOLEAN, w \in WriteOutcomes :
        /\ SetCheeseTime(time, perm, w)
        /\ UNCHANGED <<clock, next_iteration, ticks, posts, lastTick, running, nr, rc, ex, cmd>>

(***************************************************************************)
(* The bot: start-up, the periodic task and the admin commands.            *)
(***************************************************************************)
StartTimes == {At(0, 0, 59, 59), At(0, 1, 0, 59), At(0, 23, 59, 30)}

InitialFiles ==
    {NoFile, Malformed,
     JsonFile([cheese_time |-> T0900]),
     JsonFile([cheese_channel |-> 101, cheese_time |-> T0900]),
     JsonFile([cheese_channel |-> 101, cheese_time |-> TJunk]),
     JsonFile([cheese_channel |-> 102, cheese_time |-> T0800, cheese_role_id |-> 201])}

NrIdle == [phase |-> "idle"]

RcIdle == [phase |-> "idle"]

ExIdle == [phase |-> "idle"]

CmdNone == [name |-> "none"]

Init ==
    /\ file \in InitialFiles
    /\ config = load_config(file).v
    /\ clock \in StartTimes
    /\ next_iteration = clock
    /\ ticks = 0
    /\ posts = <<>>
    /\ lastTick = NoTick
    /\ running = TRUE
    /\ nr = NrIdle
    /\ rc = RcIdle
    /\ ex = ExIdle
    /\ cmd = CmdNone

Next == Tick \/ setcheesechannel \/ setcheesetime

Spec == Init /\ [][Next]_vars

(***************************************************************************)
(* seconds_until_next_run, as /cheesestatus and /setcheesetime call it once *)
(* the stored time has passed strptime.                                    *)
(***************************************************************************)
\* the string "HH:MM" of an hour and a minute
TimeString(h, m) ==
    <<Digits[(h \div 10) + 1], Digits[(h % 10) + 1], ":",
      Digits[(m \div 10) + 1], Digits[(m % 10) + 1]>>

NrNone == [kind |-> "none", value |-> 0]

\* seconds_until_next_run() with the configuration cfg at the instant now_utc:
\* midnight of now_utc.date() plus the time of day, minus eight hours, plus one day
\* when that is not after now_utc.  time(hour, minute) raises ValueError out of
\* range.
seconds_until_next_run(cfg, now_utc) ==
    IF "cheese_time" \notin DOMAIN cfg THEN NrNone
    ELSE LET set == ParseTime(cfg["cheese_time"])
         IN  IF ~set.ok THEN NrNone
             ELSE IF set.hour > 23 \/ set.minute > 59 THEN [kind |-> "raise", value |-> 0]
             ELSE LET date       == (now_utc \div SecondsPerDay) * SecondsPerDay
                      target_ph  == date + set.hour * 3600 + set.minute * 60
                      target_utc == target_ph - PhOffsetHours * 3600
                      target     == IF now_utc >= target_utc
                                    THEN target_utc + SecondsPerDay
                                    ELSE target_utc
                  IN  [kind |-> "seconds", value |-> target - now_utc]

MinuteSamples == {0, 1, 30, 59}

SecondSamples == {0, 59}

\* the instants and the times of day the computation is tried on
NrInstants ==
    {At(d, hh, mm, ss) : d \in 0..MaxDay, hh \in 0..23, mm \in MinuteSamples, ss \in SecondSamples}

NrTimes == {TimeString(h, m) : h \in 0..23, m \in MinuteSamples}

NrInit ==
    /\ \E t \in NrTimes : config = [cheese_channel |-> 101, cheese_time |-> t]
    /\ file = JsonFile(config)
    /\ clock \in NrInstants
    /\ next_iteration = clock
    /\ ticks = 0
    /\ posts = <<>>
    /\ lastTick = NoTick
    /\ running = TRUE
    /\ nr = NrIdle
    /\ rc = RcIdle
    /\ ex = ExIdle
    /\ cmd = CmdNone

\* one call of seconds_until_next_run at the instant clock
SecondsUntilNextRun ==
    /\ nr.phase = "idle"
    /\ nr' = [phase |-> "done", result |-> seconds_until_next_run(config, clock)]
    /\ UNCHANGED <<config, file, clock, next_iteration, ticks, posts, lastTick, running, rc, ex, cmd>>

NrNext == SecondsUntilNextRun

SpecNextRun == NrInit /\ [][NrNext]_vars

(***************************************************************************)
(* get_random_cheese(max_retries).                                         *)
(***************************************************************************)
Alphabet ==
    <<"a", "b", "c", "d", "e", "f", "g", "h", "i", "j", "k", "l", "m",
      "n", "o", "p", "q", "r", "s", "t", "u", "v", "w", "x", "y", "z">>

\* letters = list("abcdefghijklmnopqrstuvwxyz"), cut to the first NumLetters
letters == {Alphabet[i] : i \in 1..NumLetters}

CheesePath == <<"/", "c", "h", "e", "e", "s", "e", "/">>

HrefCheese == CheesePath \o <<"b">>

HrefNested == <<"x">> \o CheesePath \o <<"b">>

HrefAbout == <<"/", "a">>

HrefAnchor == <<"#">>

HrefExternal == <<"h", "t", "t", "p", ":", "/", "/", "x">>

\* A listing page: for each of the five selectors, in order, the non-empty hrefs
\* of the anchors it selects.
ListingPages ==
    {<< <<>>, <<>>, <<>>, <<>>, <<>> >>,
     << <<>>, <<>>, <<HrefExternal>>, <<>>, <<HrefAnchor>> >>,
     << <<HrefAnchor>>, <<>>, <<HrefCheese>>, <<>>, <<HrefAbout>> >>,
     << <<>>, <<>>, <<HrefCheese, HrefNested>>, <<>>, <<HrefAbout>> >>,
     << <<>>, <<>>, <<>>, <<>>, <<HrefExternal, HrefAbout>> >>}

\* for selector in selectors: ... if links: cheese_links.extend(links); break
RECURSIVE FirstLinks(_, _)
FirstLinks(page, i) ==
    IF i > Len(page) THEN <<>>
    ELSE IF Len(page[i]) > 0 THEN page[i]
    ELSE FirstLinks(page, i + 1)

\* '/cheese/' in link or link.startswith('/')
IsValidLink(link) == Contains(link, CheesePath) \/ StartsWith(link, <<"/">>)

\* valid_links, as a set of hrefs
ValidLinks(page) ==
    LET cheese_links == FirstLinks(page, 1)
    IN  {cheese_links[i] : i \in {j \in 1..Len(cheese_links) : IsValidLink(cheese_links[j])}}

\* available_letters, after the reset when every letter has been attempted
AvailableLetters(attempted) ==
    IF letters \ attempted = {} THEN letters ELSE letters \ attempted

\* attempted_letters after the choice: cleared first when no letter was available
AttemptedAfterNoAdd(attempted, letter) ==
    IF letters \ attempted = {} THEN {} ELSE attempted

AttemptedAfter(attempted, letter) ==
    IF letters \ attempted = {} THEN {letter} ELSE attempted \cup {letter}

\* range(max_retries): there is another iteration
LoopContinuesInclusive(attempt, max_retries) == attempt <= max_retries

LoopContinues(attempt, max_retries) == attempt < max_retries

\* except requests.RequestException / except Exception inside the loop: continue
LoopCatchesValueOnly(exc) == exc = "ValueError"

\* the loop without its except Exception clause
LoopCatchesRequestOnly(exc) == exc = "RequestException"

LoopCatches(exc) == TRUE

\* What the network does during one attempt.
AttemptEnvs ==
    [fetch : {"ok", "request_error"}, page : ListingPages,
     details : {"ok", "request_error", "other_error"}]

RcStart(max_retries) ==
    [phase |-> "run", max_retries |-> max_retries, attempt |-> 0, attempted |-> {},
     picks |-> <<>>, last |-> "none", page |-> << >>, resets |-> 0,
     exc |-> "none", url |-> << >>]

RcInit ==
    /\ \E m \in 0..MaxRetries : rc = RcStart(m)
    /\ config = EmptyConfig
    /\ file = NoFile
    /\ clock = 0
    /\ next_iteration = 0
    /\ ticks = 0
    /\ posts = <<>>
    /\ lastTick = NoTick
    /\ running = TRUE
    /\ nr = NrIdle
    /\ ex = ExIdle
    /\ cmd = CmdNone

\* One iteration of the for loop.  rc.page is the listing page the iteration got
\* (empty when the request failed) and rc.url the link it passed to
\* get_cheese_details (empty when it did not call it).
RandomAttempt ==
    /\ rc.phase = "run"
    /\ LoopContinues(rc.attempt, rc.max_retries)
    /\ \E random_letter \in AvailableLetters(rc.attempted), e \in AttemptEnvs :
         LET base == [rc EXCEPT !.attempt = @ + 1,
                                !.attempted = AttemptedAfter(rc.attempted, random_letter),
                                !.picks = Append(@, random_letter),
                                !.resets = IF letters \ rc.attempted = {} THEN @ + 1 ELSE @,
                                !.page = IF e.fetch = "ok" THEN e.page ELSE << >>,
                                !.url = << >>]
             Raised(x, exc) ==
                 IF LoopCatches(exc) THEN [x EXCEPT !.last = exc]
                 ELSE [x EXCEPT !.last = exc, !.phase = "raised", !.exc = exc]
         IN  IF e.fetch # "ok" THEN rc' = Raised(base, "RequestException")
             ELSE IF ValidLinks(e.page) = {}
             THEN rc' = [base EXCEPT !.last = "no_links"]   \* then time.sleep(0.5)
             ELSE \E selected \in ValidLinks(e.page) :
                    LET called == [base EXCEPT !.url = selected]
                    IN  CASE e.details = "ok" ->
                               rc' = [called EXCEPT !.last = "returned", !.phase = "returned"]
                          [] e.details = "request_error" ->
                               rc' = Raised(called, "RequestException")
                          [] OTHER -> rc' = Raised(called, "AttributeError")
    /\ UNCHANGED <<config, file, clock, next_iteration, ticks, posts, lastTick, running, nr, ex, cmd>>

\* raise ValueError("No cheeses found after ... attempts.")
RandomExhausted ==
    /\ rc.phase = "run"
    /\ ~LoopContinues(rc.attempt, rc.max_retries)
    /\ rc' = [rc EXCEPT !.phase = "raised", !.exc = "ValueError"]
    /\ UNCHANGED <<config, file, clock, next_iteration, ticks, posts, lastTick, running, nr, ex, cmd>>

RcNext == RandomAttempt \/ RandomExhausted

SpecRandom == RcInit /\ [][RcNext]_vars

(***************************************************************************)
(* get_cheese_details(cheese_url): the parsed page and the extraction.     *)
(*                                                                         *)
(* A page is its <title>, its Open-Graph image <meta> and the sequence of  *)
(* the children of its body in document order.  A child is a tag or a text *)
(* node ("#text"); it carries its own text nodes (strings), the <img> tags *)
(* below it (imgs) and the text of the <p> tags below it (ps).             *)
(***************************************************************************)
Absent == [some |-> FALSE, v |-> << >>]

Some(s) == [some |-> TRUE, v |-> s]

\* Python truth of an Optional[str]
Truthy(o) == o.some /\ Len(o.v) > 0

\* Python: a or b
Or(a, b) == IF Truthy(a) THEN a ELSE b

Whitespace == {" ", "\t", "\n"}

RECURSIVE LStripSet(_, _)
LStripSet(s, cs) ==
    IF Len(s) > 0 /\ s[1] \in cs THEN LStripSet(Tail(s), cs) ELSE s

RECURSIVE RStripSet(_, _)
RStripSet(s, cs) ==
    IF Len(s) > 0 /\ s[Len(s)] \in cs
    THEN RStripSet(SubSeq(s, 1, Len(s) - 1), cs)
    ELSE s

\* str.strip()
Strip(s) == RStripSet(LStripSet(s, Whitespace), Whitespace)

\* str.lstrip(':')
LStripColon(s) == LStripSet(s, {":"})

Upper ==
    << "A", "B", "C", "D", "E", "F", "G", "H", "I", "J", "K", "L", "M",
       "N", "O", "P", "Q", "R", "S", "T", "U", "V", "W", "X", "Y", "Z" >>

LowerChar(c) ==
    IF \E i \in 1..Len(Upper) : Upper[i] = c
    THEN Alphabet[CHOOSE i \in 1..Len(Upper) : Upper[i] = c]
    ELSE c

\* str.lower()
Lower(s) == [i \in 1..Len(s) |-> LowerChar(s[i])]

\* " ".join(parts)
RECURSIVE Join(_)
Join(parts) ==
    IF Len(parts) = 0 THEN << >>
    ELSE IF Len(parts) = 1 THEN parts[1]
    ELSE parts[1] \o << " " >> \o Join(Tail(parts))

\* the least element of a non-empty set of indices, 0 for the empty set: the
\* first match of find / find_next in document order, 0 standing for None
First(S) == IF S = {} THEN 0 ELSE CHOOSE i \in S : \A j \in S : i <= j

RECURSIVE StripAll(_)
StripAll(strs) ==
    IF Len(strs) = 0 THEN << >>
    ELSE << Strip(strs[1]) >> \o StripAll(Tail(strs))

NonEmpty(s) == Len(s) > 0

RECURSIVE Concat(_)
Concat(strs) == IF Len(strs) = 0 THEN << >> ELSE strs[1] \o Concat(Tail(strs))

\* every text node at or below the node
AllStrings(n) == n.strings \o n.ps

\* Tag.get_text()
GetText(n) == Concat(AllStrings(n))

\* Tag.get_text(strip=True): every text node stripped, the empty ones dropped
GetTextStrip(n) == Concat(SelectSeq(StripAll(AllStrings(n)), NonEmpty))

BASE_URL == << "h", "t", "t", "p", "s", ":", "/", "/", "w", "w", "w", ".", "c", "h", "e", "e", "s", "e", ".", "c", "o", "m" >>

HasScheme(url) == StartsWith(url, << "h", "t", "t", "p", ":", "/", "/" >>) \/ StartsWith(url, << "h", "t", "t", "p", "s", ":", "/", "/" >>)

\* urljoin(BASE_URL, url) for a non-empty url
urljoin(url) ==
    IF HasScheme(url) THEN url
    ELSE IF StartsWith(url, << "/", "/" >>) THEN << "h", "t", "t", "p", "s", ":" >> \o url
    ELSE IF StartsWith(url, << "/" >>) THEN BASE_URL \o url
    ELSE BASE_URL \o << "/" >> \o url

absolute_url(url) == IF ~Truthy(url) THEN Absent ELSE Some(urljoin(url.v))

InlineLabelTags == {"span", "strong", "b"}

HeadingTags == {"h2", "h3"}

ContainerClasses == {"wiki-content", "description", "content"}

SubstantialLength == 20

FirstParagraphs == 5

UnknownCheese == << "U", "n", "k", "n", "o", "w", "n", " ", "C", "h", "e", "e", "s", "e" >>

NoDescription == << "N", "o", " ", "d", "e", "s", "c", "r", "i", "p", "t", "i", "o", "n", " ", "a", "v", "a", "i", "l", "a", "b", "l", "e", "." >>

\* soup.find(name): the first child of that name
FindTag(page, name) ==
    First({i \in 1..Len(page.nodes) : page.nodes[i].name = name})

\* lines 69-76: the name, or the exception raised while computing it
ExtractName(page) ==
    LET h1 == FindTag(page, "h1")
    IN  IF h1 # 0
        THEN [raise |-> "none", v |-> GetTextStrip(page.nodes[h1])]
        ELSE IF page.title.present
        THEN IF page.title.string.some
             THEN [raise |-> "none", v |-> Strip(page.title.string.v)]
             ELSE [raise |-> "AttributeError", v |-> << >>]
        ELSE [raise |-> "none", v |-> UnknownCheese]

\* img_tag.get('src') or img_tag.get('data-src')
ImgSource(im) == Or(im.src, im.data_src)

\* soup.find('img'): the first <img> of the page, a child or below a child
RECURSIVE PageImgs(_)
PageImgs(nodes) ==
    IF Len(nodes) = 0 THEN << >>
    ELSE (IF nodes[1].name = "img"
          THEN << [src |-> nodes[1].src, data_src |-> nodes[1].data_src] >>
          ELSE << >>)
         \o nodes[1].imgs \o PageImgs(Tail(nodes))

\* the Open-Graph image, else the first image of the page
ExtractImageNoThumb(page) ==
    LET all == PageImgs(page.nodes)
    IN  absolute_url(IF page.og.present /\ Truthy(page.og.content) THEN page.og.content
                     ELSE IF Len(all) > 0 THEN ImgSource(all[1])
                     ELSE Absent)

\* lines 78-94
ExtractImage(page) ==
    LET thumb == First({i \in 1..Len(page.nodes) :
                           /\ page.nodes[i].name = "div"
                           /\ page.nodes[i].class = "thumb"})
        all   == PageImgs(page.nodes)
        img_url ==
            IF page.og.present /\ Truthy(page.og.content) THEN page.og.content
            ELSE IF thumb # 0 /\ Len(page.nodes[thumb].imgs) > 0
                 THEN ImgSource(page.nodes[thumb].imgs[1])
            ELSE IF Len(all) > 0 THEN ImgSource(all[1])
            ELSE Absent
    IN  absolute_url(img_url)

\* lines 97-109: the dict keeps the order of its literal
field_mapping ==
    << << << "M", "a", "d", "e", " ", "f", "r", "o", "m" >>, "made_from" >>,
       << << "C", "o", "u", "n", "t", "r", "y", " ", "o", "f", " ", "o", "r", "i", "g", "i", "n" >>, "country_of_origin" >>,
       << << "R", "e", "g", "i", "o", "n" >>, "region" >>,
       << << "F", "a", "m", "i", "l", "y" >>, "family" >>,
       << << "T", "y", "p", "e" >>, "type" >>,
       << << "T", "e", "x", "t", "u", "r", "e" >>, "texture" >>,
       << << "C", "o", "l", "o", "u", "r" >>, "colour" >>,
       << << "F", "l", "a", "v", "o", "r" >>, "flavour" >>,
       << << "F", "l", "a", "v", "o", "u", "r" >>, "flavour" >>,
       << << "A", "r", "o", "m", "a" >>, "aroma" >>,
       << << "V", "e", "g", "e", "t", "a", "r", "i", "a", "n" >>, "vegetarian" >> >>

FieldNames == {field_mapping[i][2] : i \in 1..Len(field_mapping)}

\* lines 114-115: the first span, strong or b whose stripped text starts with
\* the label
FindLabel(page, label) ==
    First({i \in 1..Len(page.nodes) :
              /\ page.nodes[i].name \in InlineLabelTags
              /\ StartsWith(GetTextStrip(page.nodes[i]), label)})

\* lines 116-131: the value found for a label, None when there is none
FieldValue(page, label) ==
    LET span == FindLabel(page, label)
        a    == First({j \in 1..Len(page.nodes) : j > span /\ page.nodes[j].name = "a"})
    IN  IF span = 0 THEN Absent
        ELSE IF a # 0 /\ Len(GetTextStrip(page.nodes[a])) > 0
        THEN Some(GetTextStrip(page.nodes[a]))
        ELSE IF span = Len(page.nodes) THEN Absent
        ELSE LET ns  == page.nodes[span + 1]
                 val == IF ns.name = "#text"
                        THEN Strip(LStripColon(Strip(Concat(ns.strings))))
                        ELSE Strip(LStripColon(GetTextStrip(ns)))
             IN  IF Len(val) > 0 THEN Some(val) ELSE Absent

\* line 112 and the assignments of lines 120, 127, 131: what one iteration of
\* the loop leaves under its key
FieldStep(data, key, found) ==
    [k \in (DOMAIN data) \cup {key} |-> IF k = key THEN found ELSE data[k]]

\* lines 111-131: the loop over field_mapping from its i-th item on
RECURSIVE ExtractFields(_, _, _)
ExtractFields(page, data, i) ==
    IF i > Len(field_mapping) THEN data
    ELSE ExtractFields(page,
                       FieldStep(data, field_mapping[i][2],
                                 FieldValue(page, field_mapping[i][1])),
                       i + 1)

\* lines 151-154 and 168-171: the absolute URLs of the <img> tags below a node
RECURSIVE ImageUrls(_)
ImageUrls(imgs) ==
    IF Len(imgs) = 0 THEN << >>
    ELSE (IF Truthy(ImgSource(imgs[1]))
          THEN << absolute_url(ImgSource(imgs[1])).v >>
          ELSE << >>)
         \o ImageUrls(Tail(imgs))

\* lines 139-143: the first h2 or h3 whose lowered text contains a marker
FindAboutHeading(page) ==
    First({i \in 1..Len(page.nodes) :
              /\ page.nodes[i].name \in HeadingTags
              /\ \/ Contains(Lower(GetText(page.nodes[i])), << "w", "h", "a", "t", " ", "i", "s" >>)
                 \/ Contains(Lower(GetText(page.nodes[i])), << "a", "b", "o", "u", "t" >>)})

\* Tag.find_next_sibling(): the next sibling that is a tag
NextTagSibling(page, i) ==
    First({j \in 1..Len(page.nodes) : j > i /\ page.nodes[j].name # "#text"})

\* lines 148-158: the scan of the siblings after the heading
RECURSIVE HeadingScan(_, _, _)
HeadingScan(page, node, acc) ==
    IF node = 0 \/ page.nodes[node].name \in HeadingTags THEN acc
    ELSE LET n == page.nodes[node]
         IN  HeadingScan(page, NextTagSibling(page, node),
                 [paragraphs |->
                      IF n.name = "p" /\ Len(GetTextStrip(n)) > 0
                      THEN Append(acc.paragraphs, GetTextStrip(n))
                      ELSE acc.paragraphs,
                  images |-> acc.images \o ImageUrls(n.imgs)])

\* lines 145-160
HeadingTier(page) ==
    LET about_h2 == FindAboutHeading(page)
        scan == HeadingScan(page, NextTagSibling(page, about_h2),
                            [paragraphs |-> << >>, images |-> << >>])
    IN  IF about_h2 = 0 THEN [about |-> Absent, images |-> << >>]
        ELSE [about |-> IF Len(scan.paragraphs) > 0
                        THEN Some(Strip(Join(scan.paragraphs)))
                        ELSE Absent,
              images |-> scan.images]

\* line 164
Containers(page) ==
    SelectSeq([i \in 1..Len(page.nodes) |-> i],
              LAMBDA i : /\ page.nodes[i].name = "div"
                         /\ page.nodes[i].class \in ContainerClasses)

\* lines 165-182: the loop over the containers from the k-th on
RECURSIVE ContainerScan(_, _, _, _)
ContainerScan(page, containers, k, images) ==
    IF k > Len(containers) THEN [about |-> Absent, images |-> images]
    ELSE LET c == page.nodes[containers[k]]
             collected == images \o ImageUrls(c.imgs)
             paragraphs == SelectSeq(StripAll(c.ps), NonEmpty)
             text == GetTextStrip(c)
         IN  IF Len(paragraphs) > 0
             THEN [about |-> Some(Join(paragraphs)), images |-> collected]
             ELSE IF Len(text) > SubstantialLength
             THEN [about |-> Some(text), images |-> collected]
             ELSE ContainerScan(page, containers, k + 1, collected)

\* soup.find_all('p'): the stripped text of every <p> in document order
RECURSIVE AllParagraphs(_)
AllParagraphs(nodes) ==
    IF Len(nodes) = 0 THEN << >>
    ELSE (IF nodes[1].name = "p" THEN << GetTextStrip(nodes[1]) >> ELSE << >>)
         \o StripAll(nodes[1].ps) \o AllParagraphs(Tail(nodes))

\* the first five of the non-empty paragraphs
ParagraphTierNonEmptyFirst(page) ==
    LET paragraphs == SelectSeq(AllParagraphs(page.nodes), NonEmpty)
        firstFew == SubSeq(paragraphs, 1, IF Len(paragraphs) < FirstParagraphs
                                          THEN Len(paragraphs) ELSE FirstParagraphs)
    IN  IF Len(firstFew) > 0 THEN Some(Join(firstFew)) ELSE Absent

\* lines 185-187
ParagraphTier(page) ==
    LET all == AllParagraphs(page.nodes)
        firstFew == SubSeq(all, 1, IF Len(all) < FirstParagraphs
                                   THEN Len(all) ELSE FirstParagraphs)
        paragraphs == SelectSeq(firstFew, NonEmpty)
    IN  IF Len(paragraphs) > 0 THEN Some(Join(paragraphs)) ELSE Absent

\* lines 133-189: the about text and the images collected on the way
ExtractAbout(page) ==
    LET t1 == HeadingTier(page)
        t2 == IF Truthy(t1.about) THEN t1
              ELSE ContainerScan(page, Containers(page), 1, t1.images)
        t3 == IF Truthy(t2.about) THEN t2.about ELSE ParagraphTier(page)
    IN  [about |-> IF Truthy(t3) THEN t3.v ELSE NoDescription,
         images |-> t2.images]

InSeq(x, s) == \E i \in 1..Len(s) : s[i] = x

\* the list kept as it is
DedupKeep(urls, seen) == seen \o urls

\* list(dict.fromkeys(urls)): the first occurrence of each, in order
RECURSIVE Dedup(_, _)
Dedup(urls, seen) ==
    IF Len(urls) = 0 THEN seen
    ELSE Dedup(Tail(urls),
               IF InSeq(urls[1], seen) THEN seen ELSE Append(seen, urls[1]))

\* lines 191-195
AboutImages(image_url, collected) ==
    LET about_images == Dedup(SelectSeq(collected, NonEmpty), << >>)
    IN  IF Truthy(image_url) /\ ~InSeq(image_url.v, about_images)
        THEN << image_url.v >> \o about_images
        ELSE about_images

FetchOutcomes == {"ok", "RequestException"}

\* lines 61-200
get_cheese_details(cheese_url, fetch, page) ==
    IF fetch # "ok"
    THEN [kind |-> "raise", exc |-> "RequestException"]
    ELSE LET name  == ExtractName(page)
             image == ExtractImage(page)
             about == ExtractAbout(page)
         IN  IF name.raise # "none"
             THEN [kind |-> "raise", exc |-> name.raise]
             ELSE [kind |-> "record",
                   source_url |-> cheese_url,
                   name |-> name.v,
                   image_url |-> image,
                   fields |-> ExtractFields(page, << >>, 1),
                   about |-> about.about,
                   about_images |-> AboutImages(image, about.images)]

(***************************************************************************)
(* Pages: a head, the part with the structured fields and the part with    *)
(* the description.                                                        *)
(***************************************************************************)
Tag(name, strings) ==
    [name |-> name, class |-> "", strings |-> strings,
     imgs |-> << >>, ps |-> << >>, src |-> Absent, data_src |-> Absent]

Text(s) == Tag("#text", << s >>)

Div(class, strings, imgs, ps) ==
    [name |-> "div", class |-> class, strings |-> strings,
     imgs |-> imgs, ps |-> ps, src |-> Absent, data_src |-> Absent]

Img(src, data_src) ==
    [name |-> "img", class |-> "", strings |-> << >>,
     imgs |-> << >>, ps |-> << >>, src |-> src, data_src |-> data_src]

ImgBelow(src, data_src) == [src |-> src, data_src |-> data_src]

NoTitle == [present |-> FALSE, string |-> Absent]

Title(string) == [present |-> TRUE, string |-> string]

NoOg == [present |-> FALSE, content |-> Absent]

Og(content) == [present |-> TRUE, content |-> content]

\* <title>Brie - Cheese.com</title>, <title> </title>, <title></title>, none
Titles ==
    { NoTitle, Title(Some(<< " ", "B", "r", "i", "e", " ", "|", " ", "C", "h", "e", "e", "s", "e", " " >>)), Title(Some(<< " " >>)), Title(Absent) }

\* no h1, <h1>Brie</h1>, <h1></h1>, <h1> </h1>, two h1
Headings ==
    { << >>,
      << Tag("h1", << << " ", "B", "r", "i", "e", " " >> >>) >>,
      << Tag("h1", << >>) >>,
      << Tag("h1", << << " " >> >>) >>,
      << Tag("h1", << << "B", "r", "i", "e" >> >>), Tag("h1", << << "E", "d", "a", "m" >> >>) >> }

Ogs == { NoOg, Og(Some(<< "/", "o", "g", ".", "p", "n", "g" >>)), Og(Some(<< >>)), Og(Absent) }

FieldParts ==
    { << >>,
      \* <span>Flavor:</span> sweet
      << Tag("span", << << "F", "l", "a", "v", "o", "r", ":" >> >>), Text(<< " ", "s", "w", "e", "e", "t", " " >>) >>,
      \* <strong>Flavour</strong>: nutty
      << Tag("strong", << << "F", "l", "a", "v", "o", "u", "r" >> >>), Text(<< ":", " ", "n", "u", "t", "t", "y" >>) >>,
      \* <b>Flavor:</b><a>mild</a>
      << Tag("b", << << "F", "l", "a", "v", "o", "r", ":" >> >>), Tag("a", << << "m", "i", "l", "d" >> >>) >>,
      \* <b>Flavour:</b><a>mild</a>
      << Tag("b", << << "F", "l", "a", "v", "o", "u", "r", ":" >> >>), Tag("a", << << "m", "i", "l", "d" >> >>) >>,
      \* <span>Flavor:</span> sweet <span>Flavour:</span> nutty
      << Tag("span", << << "F", "l", "a", "v", "o", "r", ":" >> >>), Text(<< " ", "s", "w", "e", "e", "t", " " >>),
         Tag("span", << << "F", "l", "a", "v", "o", "u", "r", ":" >> >>), Text(<< " ", "n", "u", "t", "t", "y" >>) >>,
      \* <span>Type:</span><span>: soft</span><span>Flavor</span>
      << Tag("span", << << "T", "y", "p", "e", ":" >> >>), Tag("span", << << ":", " ", "s", "o", "f", "t" >> >>),
         Tag("span", << << "F", "l", "a", "v", "o", "r" >> >>) >>,
      \* <span>Colour:</span> <a></a> white
      << Tag("span", << << "C", "o", "l", "o", "u", "r", ":" >> >>), Text(<< " " >>), Tag("a", << >>),
         Text(<< "w", "h", "i", "t", "e" >>) >> }

AboutParts ==
    { << >>,
      \* <h2>What is Brie?</h2><p>Soft.</p><img src="/a.png"><div><img></div>
      \* <p> </p><h3>More</h3><p>Later.</p>
      << Tag("h2", << << "W", "h", "a", "t", " ", "i", "s", " ", "B", "r", "i", "e", "?" >> >>), Tag("p", << << "S", "o", "f", "t", "." >> >>),
         Img(Some(<< "/", "a", ".", "p", "n", "g" >>), Absent),
         Div("", << >>, << ImgBelow(Absent, Some(<< "b", ".", "p", "n", "g" >>)),
                           ImgBelow(Some(<< "/", "o", "g", ".", "p", "n", "g" >>), Absent) >>, << >>),
         Tag("p", << << " " >> >>), Tag("h3", << << "M", "o", "r", "e" >> >>),
         Tag("p", << << "L", "a", "t", "e", "r", "." >> >>) >>,
      \* <h3>About</h3><p> </p><div class="description"><p>Creamy.</p></div>
      << Tag("h3", << << "A", "b", "o", "u", "t" >> >>), Tag("p", << << " " >> >>),
         Div("description", << >>,
             << ImgBelow(Some(<< "/", "a", ".", "p", "n", "g" >>), Absent),
                ImgBelow(Some(<< "/", "a", ".", "p", "n", "g" >>), Absent) >>,
             << << "C", "r", "e", "a", "m", "y", ".", " " >> >>) >>,
      \* <div class="content">short</div>
      \* <div class="wiki-content">a text of more than twenty characters</div>
      << Div("content", << << "s", "h", "o", "r", "t" >> >>, << ImgBelow(Some(<< "/", "c", ".", "p", "n", "g" >>), Absent) >>, << >>),
         Div("wiki-content", << << "B", "r", "i", "e", " ", "i", "s", " ", "a", " ", "s", "o", "f", "t", " ", "c", "o", "w", " ", "c", "h", "e", "e", "s", "e", "." >> >>,
             << ImgBelow(Some(<< >>), Some(<< "/", "o", "g", ".", "p", "n", "g" >>)) >>, << << " " >> >>) >>,
      \* <img src="/f.png"><div class="thumb"><img data-src="/t.png"></div>
      \* <p>First.</p><p>Second.</p>
      << Img(Some(<< "/", "f", ".", "p", "n", "g" >>), Absent),
         Div("thumb", << >>, << ImgBelow(Absent, Some(<< "/", "t", ".", "p", "n", "g" >>)) >>, << >>),
         Tag("p", << << "F", "i", "r", "s", "t", "." >> >>), Tag("p", << << "S", "e", "c", "o", "n", "d", "." >> >>) >>,
      \* five empty paragraphs and a sixth with text
      << Tag("p", << >>), Tag("p", << << " " >> >>), Tag("p", << >>),
         Tag("p", << >>), Tag("p", << >>), Tag("p", << << "S", "i", "x", "t", "h", "." >> >>) >>,
      \* <div class="content">a text of more than twenty characters</div>
      \* <div class="description"><p>Creamy.</p></div>
      << Div("content", << << "B", "r", "i", "e", " ", "i", "s", " ", "a", " ", "s", "o", "f", "t", " ", "c", "o", "w", " ", "c", "h", "e", "e", "s", "e", "." >> >>, << >>, << >>),
         Div("description", << >>, << >>, << << "C", "r", "e", "a", "m", "y", "." >> >>) >>,
      \* <div class="thumb"><img></div><img src="/f.png">
      << Div("thumb", << >>, << ImgBelow(Absent, Absent) >>, << >>),
         Img(Some(<< "/", "f", ".", "p", "n", "g" >>), Absent) >>,
      \* <h2>Recipes</h2><img src="/r.png">
      << Tag("h2", << << "R", "e", "c", "i", "p", "e", "s" >> >>), Img(Some(<< "/", "r", ".", "p", "n", "g" >>), Absent) >> }

Pages ==
    { [title |-> t, og |-> o, nodes |-> h \o f \o a] :
        t \in Titles, o \in Ogs, h \in Headings, f \in FieldParts, a \in AboutParts }

PageUrl == << "h", "t", "t", "p", "s", ":", "/", "/", "w", "w", "w", ".", "c", "h", "e", "e", "s", "e", ".", "c", "o", "m", "/", "b", "r", "i", "e", "/" >>

ExInit ==
    /\ file = NoFile
    /\ config = load_config(file).v
    /\ clock = 0
    /\ next_iteration = 0
    /\ ticks = 0
    /\ posts = <<>>
    /\ lastTick = NoTick
    /\ running = TRUE
    /\ nr = NrIdle
    /\ rc = RcIdle
    /\ \E p \in Pages : ex = [phase |-> "call", cheese_url |-> PageUrl, page |-> p]
    /\ cmd = CmdNone

\* one call of get_cheese_details on the page
ExtractDetails ==
    /\ ex.phase = "call"
    /\ \E fetch \in FetchOutcomes :
          ex' = [phase |-> "done", cheese_url |-> ex.cheese_url, page |-> ex.page,
                 fetch |-> fetch,
                 result |-> get_cheese_details(ex.cheese_url, fetch, ex.page)]
    /\ UNCHANGED <<config, file, clock, next_iteration, ticks, posts, lastTick,
                   running, nr, rc, cmd>>

ExNext == ExtractDetails

SpecExtract == ExInit /\ [][ExNext]_vars

(***************************************************************************)
(* Properties of the scheduler.                                            *)
(***************************************************************************)
\* the minute, counted from day 0, that an instant falls in at UTC+8
PhMinuteIndex(t) == (t + 8 * 3600) \div 60

\* the configured time of day as a minute of the day, -1 when it does not parse
ConfiguredMinute(cfg) ==
    LET p == ParseTime(cfg["cheese_time"])
    IN  IF p.ok THEN p.hour * 60 + p.minute ELSE -1

\* the channel and the time of day are both configured
BothSet(cfg) == {"cheese_channel", "cheese_time"} \subseteq DOMAIN cfg

\* a step that is one iteration of daily_cheese_task
TickStep == ticks' = ticks + 1

\* C1: the iteration that starts in the configured minute with every
\* collaborator succeeding sends exactly one message, and no two messages are
\* sent by iterations that started in the same UTC+8 minute.
C1_AtMostOnePostPerMinute ==
    /\ \A i, j \in 1..Len(posts) :
           i < j => PhMinuteIndex(posts[i].start) # PhMinuteIndex(posts[j].start)
    /\ lastTick.outcome = "posted" =>
           /\ lastTick.sent = 1 /\ lastTick.send_calls = 1
           /\ Len(posts) > 0 /\ posts[Len(posts)].start = lastTick.start
           /\ \A i \in 1..(Len(posts) - 1) : posts[i].start # lastTick.start

\* two scheduled posts have been made (in different minutes)
C1_Witness == Len(posts) >= 2

\* C3: with channel and time configured, an iteration calls the fetch if and
\* only if the minute of the day at UTC+8 of its start equals the configured time
\* of day; otherwise it fetches nothing and sends nothing.
C3_FetchIffTimeMatches ==
    [][(TickStep /\ BothSet(config)) =>
          LET match == ConfiguredMinute(config) = PhMinuteIndex(lastTick'.start) % (24 * 60)
          IN  /\ (lastTick'.daily_calls > 0) <=> match
              /\ ~match => /\ lastTick'.daily_calls = 0 /\ lastTick'.details_calls = 0
                           /\ lastTick'.send_calls = 0 /\ posts' = posts]_vars

\* an iteration that started in the configured minute fetched and posted, and an
\* earlier one that started outside it did nothing
C3_Witness == lastTick.outcome = "posted" /\ ticks >= 2 /\ Len(posts) = 1

\* C4: with the channel or the time unset an iteration does nothing: no fetch, no
\* send, no sleep, no time spent, config and file untouched.
C4_UnconfiguredTickIsNoOp ==
    [][(TickStep /\ ~BothSet(config)) =>
          /\ lastTick'.outcome = "skipped"
          /\ lastTick'.daily_calls = 0 /\ lastTick'.details_calls = 0
          /\ lastTick'.send_calls = 0 /\ lastTick'.sent = 0
          /\ lastTick'.slept = 0 /\ clock' = lastTick'.start
          /\ posts' = posts /\ config' = config /\ file' = file]_vars

\* an iteration ran at the configured minute of a time that is set while the
\* channel is not
C4_Witness ==
    /\ lastTick.outcome = "skipped"
    /\ "cheese_time" \in DOMAIN config /\ "cheese_channel" \notin DOMAIN config
    /\ ConfiguredMinute(config) = PhMinuteIndex(lastTick.start) % (24 * 60)

\* what C5 says of the iteration in which an error is raised: caught, nothing
\* posted, every call made at most once, no suppression sleep, the task alive and
\* its next iteration scheduled one period later
ErrorIsContained ==
    /\ posts' = posts /\ lastTick'.sent = 0
    /\ lastTick'.daily_calls <= 1 /\ lastTick'.details_calls <= 1
    /\ lastTick'.send_calls <= 1
    /\ lastTick'.slept = 0
    /\ ~lastTick'.escaped /\ running'
    /\ next_iteration' = next_iteration + LoopSeconds

\* the iteration after this one starts in a later UTC+8 minute
NextTickInLaterMinute ==
    PhMinuteIndex(Max(clock', next_iteration')) > PhMinuteIndex(lastTick'.start)

\* C5 as claimed: an error is contained and the next iteration, hence the next
\* attempt, is not in the same minute.
C5_Original ==
    [][(TickStep /\ lastTick'.outcome = "error") =>
          ErrorIsContained /\ NextTickInLaterMinute]_vars

\* the part of C5 that holds: an error is contained, and the next iteration is in
\* a later minute when the failing iteration started at its scheduled instant
C5_ErrorContained ==
    [][(TickStep /\ lastTick'.outcome = "error") =>
          /\ ErrorIsContained
          /\ clock <= next_iteration => NextTickInLaterMinute]_vars

\* a fetch failed in an iteration that started in the configured minute, and the
\* task is alive
C5_Witness ==
    /\ lastTick.outcome = "error" /\ lastTick.daily_calls = 1 /\ running
    /\ BothSet(config)
    /\ ConfiguredMinute(config) = PhMinuteIndex(lastTick.start) % (24 * 60)

(***************************************************************************)
(* Properties of seconds_until_next_run.                                   *)
(***************************************************************************)
\* seconds from the instant now_utc to the next instant strictly after it whose
\* time of day at UTC+8 is hh:mm:00
UntilNextOccurrence(now_utc, hh, mm) ==
    LET want == hh * 3600 + mm * 60
        have == (now_utc + 8 * 3600) % (24 * 3600)
        d    == (want + 24 * 3600 - have) % (24 * 3600)
    IN  IF d = 0 THEN 24 * 3600 ELSE d

\* C2: for a configured time of day in 00:00..23:59 the result is a number of
\* seconds in 1..86400 and is the time until the next occurrence of that time of
\* day at UTC+8.
C2_PositiveUntilNextOccurrence ==
    nr.phase = "done" =>
        LET set == ParseTime(config["cheese_time"])
        IN  /\ nr.result.kind = "seconds"
            /\ nr.result.value > 0
            /\ nr.result.value <= 24 * 3600
            /\ nr.result.value = UntilNextOccurrence(clock, set.hour, set.minute)

\* what holds of the code: the result is the next occurrence when the configured
\* hour is 08 or later, and is one day short of it, zero or negative, when the
\* hour is before 08 and the UTC time of day is at or past the target's
NextRunFromEight ==
    nr.phase = "done" =>
        LET set == ParseTime(config["cheese_time"])
            due == UntilNextOccurrence(clock, set.hour, set.minute)
        IN  /\ nr.result.kind = "seconds"
            /\ nr.result.value \in {due, due - 24 * 3600}
            /\ set.hour >= 8 => nr.result.value = due

(***************************************************************************)
(* Properties of get_random_cheese.                                        *)
(***************************************************************************)
\* the first selector that selects any link selects no link that contains
\* "/cheese/" or starts with "/"
NoValidLink(page) ==
    LET hit == {i \in 1..Len(page) : page[i] # <<>>}
    IN  \/ hit = {}
        \/ LET k == CHOOSE i \in hit : \A j \in hit : i <= j
           IN  \A n \in 1..Len(page[k]) :
                   /\ ~Contains(page[k][n], CheesePath)
                   /\ page[k][n][1] # "/"

\* a step that is one iteration of the loop of get_random_cheese
AttemptStep == rc'.attempt = rc.attempt + 1

\* C6: the call fails with the exhausted error only after exactly max_retries
\* listing-page requests, never makes more, returns a record only from a page
\* that has a valid link, and with max_retries = 0 fails without a request.
C6_ExactlyMaxAttempts ==
    /\ Len(rc.picks) = rc.attempt /\ rc.attempt <= rc.max_retries
    /\ rc.phase = "raised" =>
           /\ rc.exc = "ValueError"
           /\ Len(rc.picks) = rc.max_retries
    /\ rc.phase = "returned" => rc.page # << >> /\ ~NoValidLink(rc.page)
    /\ rc.last = "no_links" => NoValidLink(rc.page) /\ rc.phase # "returned"
    /\ rc.max_retries = 0 => Len(rc.picks) = 0 /\ rc.phase \in {"run", "raised"}

\* the call has failed after MaxRetries attempts, the last on a page without a
\* valid link
C6_Witness ==
    /\ rc.phase = "raised" /\ rc.max_retries = MaxRetries
    /\ rc.last = "no_links" /\ Len(rc.picks) = MaxRetries

\* C7: counting attempts in blocks of as many as there are letters, the letters
\* of a block are pairwise distinct; the tried-set is the letters of the current
\* block, and it has been reset once per completed block that was followed by
\* another attempt.
C7_LettersDistinctPerBlock ==
    LET n == Cardinality(letters)
        len == Len(rc.picks)
    IN  /\ \A i \in 1..len : rc.picks[i] \in letters
        /\ \A i, j \in 1..len :
               (i < j /\ (i - 1) \div n = (j - 1) \div n) => rc.picks[i] # rc.picks[j]
        /\ len > 0 =>
               /\ rc.attempted = {rc.picks[i] : i \in (((len - 1) \div n) * n + 1)..len}
               /\ rc.resets = (len - 1) \div n
        /\ len = 0 => rc.attempted = {} /\ rc.resets = 0

\* the tried-set has been reset and two attempts were made after the reset
C7_Witness == rc.resets = 1 /\ Len(rc.picks) = NumLetters + 2

\* this step's attempt failed at the listing-page request
ListingFetchFailed == AttemptStep /\ rc'.last = "RequestException" /\ rc'.page = << >>

\* the previous attempt failed at the listing-page request
AfterListingFetchFailure ==
    AttemptStep /\ rc.last = "RequestException" /\ rc.page = << >> /\ rc.attempt > 0

\* the failure does not leave the loop, uses one attempt and marks the letter
FailureSwallowed ==
    /\ rc'.phase = "run" /\ rc'.exc = "none"
    /\ rc'.attempt = rc.attempt + 1 /\ rc'.max_retries = rc.max_retries
    /\ rc'.picks[Len(rc'.picks)] \in rc'.attempted

\* C8 as claimed: the failure is swallowed and the next attempt uses a different
\* letter.
C8_Original ==
    [][/\ ListingFetchFailed => FailureSwallowed
       /\ AfterListingFetchFailure =>
              rc'.picks[Len(rc'.picks)] # rc.picks[Len(rc.picks)]]_vars

\* C8 as amended: the failure is swallowed and the next attempt uses a letter not
\* tried since the last reset, which is a different letter unless the failed
\* letter was the last untried one.
C8_NextLetterUntried ==
    [][/\ ListingFetchFailed => FailureSwallowed
       /\ AfterListingFetchFailure =>
              /\ rc.attempted # letters =>
                     /\ rc'.picks[Len(rc'.picks)] \notin rc.attempted
                     /\ rc'.picks[Len(rc'.picks)] # rc.picks[Len(rc.picks)]
              /\ rc.attempted = letters => rc'.attempted = {rc'.picks[Len(rc'.picks)]}]_vars

\* a listing-page request failed on the last untried letter and attempts remain
C8_Witness ==
    /\ rc.phase = "run" /\ rc.last = "RequestException" /\ rc.page = << >>
    /\ rc.attempted = letters /\ rc.attempt < rc.max_retries

(***************************************************************************)
(* Properties of get_cheese_details.                                       *)
(***************************************************************************)
\* a call of get_cheese_details whose request succeeded has finished
Fetched == ex.phase = "done" /\ ex.fetch = "ok"

\* the name the claim describes: the text of the first h1, else the title, else
\* the sentinel
NameSources(page) ==
    LET h1 == FindTag(page, "h1")
    IN  {GetTextStrip(page.nodes[i]) : i \in {h1} \ {0}}
        \cup {Strip(page.title.string.v) : x \in {1} \ {IF page.title.present THEN 0 ELSE 1}}
        \cup {UnknownCheese}

\* C9: every successfully fetched page yields a record whose name and about are
\* non-empty strings, the name being the first h1 text, else the title, else
\* "Unknown Cheese", also when the h1 or the title exists with empty text.
C9_NameAndAboutNonEmpty ==
    Fetched =>
        /\ ex.result.kind = "record"
        /\ Len(ex.result.name) > 0
        /\ Len(ex.result.about) > 0
        /\ ex.result.name \in NameSources(ex.page)

\* the part of C9 that holds: about is never empty, and the name is non-empty
\* whenever the first h1 has text
C9_AboutNonEmpty ==
    (Fetched /\ ex.result.kind = "record") =>
        /\ Len(ex.result.about) > 0
        /\ LET h1 == FindTag(ex.page, "h1")
           IN  (h1 # 0 /\ Len(GetTextStrip(ex.page.nodes[h1])) > 0) =>
                   ex.result.name = GetTextStrip(ex.page.nodes[h1])

\* the labels of the page that spell the flavour one way or the other
FlavourLabels(page) ==
    {i \in 1..Len(page.nodes) :
        /\ page.nodes[i].name \in InlineLabelTags
        /\ StartsWith(GetTextStrip(page.nodes[i]), << "F", "l", "a", "v", "o" >>)}

\* the spelling of the only flavour label of the page
OnlyLabel(page) ==
    LET i == CHOOSE i \in FlavourLabels(page) : TRUE
    IN  IF StartsWith(GetTextStrip(page.nodes[i]), << "F", "l", "a", "v", "o", "u", "r" >>)
        THEN << "F", "l", "a", "v", "o", "u", "r" >>
        ELSE << "F", "l", "a", "v", "o", "r" >>

\* C10: a page whose only flavour label is "Flavor" with a value yields a record
\* whose flavour is that value, and likewise for "Flavour".
C10_FlavourFromEitherSpelling ==
    (/\ Fetched /\ ex.result.kind = "record"
     /\ Cardinality(FlavourLabels(ex.page)) = 1
     /\ FieldValue(ex.page, OnlyLabel(ex.page)).some) =>
        ex.result.fields["flavour"] = FieldValue(ex.page, OnlyLabel(ex.page))

\* the half of C10 that holds: the only label is spelled "Flavour"
C10_FlavourSpelling ==
    (/\ Fetched /\ ex.result.kind = "record"
     /\ Cardinality(FlavourLabels(ex.page)) = 1
     /\ OnlyLabel(ex.page) = << "F", "l", "a", "v", "o", "u", "r" >>) =>
        ex.result.fields["flavour"] = FieldValue(ex.page, OnlyLabel(ex.page))

\* a call whose request succeeded returned a record
Extracted == Fetched /\ ex.result.kind = "record"

\* the URLs collected by the scan for the about text, before the clean-up
Collected == ExtractAbout(ex.page).images

NoDuplicates(s) == \A i, j \in 1..Len(s) : s[i] = s[j] => i = j

\* the position of the first occurrence of x in s
FirstIndex(x, s) == First({i \in 1..Len(s) : s[i] = x})

\* the primary image was put in front of the collected ones
Prepended ==
    /\ ex.result.image_url.some
    /\ ~InSeq(ex.result.image_url.v, Collected)

\* C11: about_images never holds the same URL twice, whatever the scan collected
\* and whether or not the primary image is among it; the collected URLs appear
\* once each, in the order of their first occurrence.
C11_AboutImagesDistinct ==
    Extracted =>
        LET images == ex.result.about_images
            rest   == IF Prepended THEN Tail(images) ELSE images
        IN  /\ NoDuplicates(images)
            /\ {rest[i] : i \in 1..Len(rest)} = {Collected[i] : i \in 1..Len(Collected)}
            /\ \A i, j \in 1..Len(rest) :
                   i < j => FirstIndex(rest[i], Collected) < FirstIndex(rest[j], Collected)

\* the scan collected the same URL more than once, from the siblings of the
\* heading and from a container, and the record holds two images
C11_Witness ==
    /\ Extracted
    /\ ~NoDuplicates(Collected)
    /\ Len(ex.result.about_images) >= 2

\* C12: whenever image_url is present it is the first element of about_images,
\* also when the scan collected the same URL at a later position.
C12_PrimaryImageFirst ==
    (Extracted /\ ex.result.image_url.some) =>
        /\ Len(ex.result.about_images) > 0
        /\ ex.result.about_images[1] = ex.result.image_url.v

\* the part of C12 that holds: a present image_url is in about_images, and it is
\* the first element when the scan did not collect it or collected it first
C12_PrimaryImagePresent ==
    (Extracted /\ ex.result.image_url.some) =>
        /\ InSeq(ex.result.image_url.v, ex.result.about_images)
        /\ FirstIndex(ex.result.image_url.v, Collected) \in {0, 1} =>
               ex.result.about_images[1] = ex.result.image_url.v

\* what one content container yields: its non-empty paragraphs, joined
ContainerParagraphs(c) ==
    LET paragraphs == SelectSeq(StripAll(c.ps), NonEmpty)
    IN  IF Len(paragraphs) > 0 THEN Some(Join(paragraphs)) ELSE Absent

\* what one content container yields: its text, when longer than 20 characters
ContainerText(c) ==
    IF Len(GetTextStrip(c)) > 20 THEN Some(GetTextStrip(c)) ELSE Absent

\* the content containers of the page, as nodes in document order
ContainerNodes(page) ==
    SelectSeq(page.nodes,
              LAMBDA n : n.name = "div" /\ n.class \in ContainerClasses)

\* the first element of a sequence of optional values that is present
FirstPresent(opts) ==
    LET k == First({i \in 1..Len(opts) : opts[i].some})
    IN  IF k = 0 THEN Absent ELSE opts[k]

\* the first of the tiers, in order, that yields text; the sentinel when none does
FirstTier(tiers) ==
    IF FirstPresent(tiers).some THEN FirstPresent(tiers).v ELSE NoDescription

\* C13 as claimed: about is the first that yields text of (1) the paragraphs after
\* the about heading, (2) the paragraphs of a content container, (3) substantial
\* text, (4) the first five non-empty paragraphs of the document; the sentinel
\* exactly when none of them yields anything.
C13_Original ==
    Extracted =>
        LET containers == ContainerNodes(ex.page)
            tiers ==
                << HeadingTier(ex.page).about,
                   FirstPresent([k \in 1..Len(containers) |-> ContainerParagraphs(containers[k])]),
                   FirstPresent([k \in 1..Len(containers) |-> ContainerText(containers[k])]),
                   ParagraphTierNonEmptyFirst(ex.page) >>
        IN  /\ ex.result.about = FirstTier(tiers)
            /\ (ex.result.about = NoDescription) <=> ~FirstPresent(tiers).some

\* C13 as amended: about is the first that yields text of (1) the paragraphs after
\* the about heading, (2) the content containers in document order, each
\* yielding its paragraphs or, having none, its text when longer than 20
\* characters, (3) the non-empty ones among the first five paragraphs of the
\* document; the sentinel exactly when none of them yields anything.
C13_FirstYieldingTier ==
    Extracted =>
        LET containers == ContainerNodes(ex.page)
            firstFive == SubSeq(AllParagraphs(ex.page.nodes), 1,
                                IF Len(AllParagraphs(ex.page.nodes)) < 5
                                THEN Len(AllParagraphs(ex.page.nodes)) ELSE 5)
            tiers ==
                << HeadingTier(ex.page).about,
                   FirstPresent([k \in 1..Len(containers) |->
                                    IF ContainerParagraphs(containers[k]).some
                                    THEN ContainerParagraphs(containers[k])
                                    ELSE ContainerText(containers[k])]),
                   IF Len(SelectSeq(firstFive, NonEmpty)) > 0
                   THEN Some(Join(SelectSeq(firstFive, NonEmpty)))
                   ELSE Absent >>
        IN  /\ ex.result.about = FirstTier(tiers)
            /\ (ex.result.about = NoDescription) <=> ~FirstPresent(tiers).some

\* the record holds the sentinel although the document has a paragraph with
\* text, after its first five
C13_Witness ==
    /\ Extracted
    /\ ex.result.about = NoDescription
    /\ Len(SelectSeq(AllParagraphs(ex.page.nodes), NonEmpty)) > 0

\* the page has an Open-Graph image tag with a URL
HasOgUrl(page) == page.og.present /\ Truthy(page.og.content)

\* the images of the first thumbnail container of the page
ThumbImgs(page) ==
    LET thumbs == SelectSeq(page.nodes, LAMBDA n : n.name = "div" /\ n.class = "thumb")
    IN  IF Len(thumbs) = 0 THEN << >> ELSE thumbs[1].imgs

\* the URL an <img> carries: its src, else its data-src
SourceOf(im) == IF Truthy(im.src) THEN im.src ELSE im.data_src

\* the page has no image source at all
NoImageSource(page) ==
    /\ ~HasOgUrl(page)
    /\ \A i \in 1..Len(PageImgs(page.nodes)) : ~Truthy(SourceOf(PageImgs(page.nodes)[i]))

\* C14: image_url is the Open-Graph image URL if the page has one, else the URL
\* of the image of the thumbnail container, else that of the first image of the
\* page, resolved to an absolute URL: kept when it has a scheme, joined to the
\* base origin otherwise; it is absent, with no error, when the page has no
\* image source at all.
C14_ImagePrecedence ==
    Extracted =>
        LET chosen == IF HasOgUrl(ex.page) THEN ex.page.og.content
                      ELSE IF Len(ThumbImgs(ex.page)) > 0 THEN SourceOf(ThumbImgs(ex.page)[1])
                      ELSE IF Len(PageImgs(ex.page.nodes)) > 0
                           THEN SourceOf(PageImgs(ex.page.nodes)[1])
                      ELSE Absent
            url == ex.result.image_url
        IN  /\ url.some <=> Truthy(chosen)
            /\ url.some =>
                   /\ HasScheme(url.v)
                   /\ HasScheme(chosen.v) => url.v = chosen.v
                   /\ ~HasScheme(chosen.v) =>
                          \E k \in 0..1 : url.v = BASE_URL \o SubSeq(<< "/" >>, 1, k) \o chosen.v
            /\ NoImageSource(ex.page) => ~url.some

\* no Open-Graph URL, and the image of the thumbnail container, which is not
\* the first image of the page, was chosen
C14_Witness ==
    /\ Extracted
    /\ ~HasOgUrl(ex.page)
    /\ Len(ThumbImgs(ex.page)) > 0
    /\ SourceOf(PageImgs(ex.page.nodes)[1]) # SourceOf(ThumbImgs(ex.page)[1])
    /\ ex.result.image_url = Some(BASE_URL \o SourceOf(ThumbImgs(ex.page)[1]).v)

(***************************************************************************)
(* config.json on its own: save_config(data) and the load_config() of the   *)
(* next start of the process.                                              *)
(***************************************************************************)
\* a stored time that needs escaping
TQuoted == << "9", Quote, Backslash, "\n", ":" >>

\* with(cfg, k, vals): cfg, and cfg with k set to each of vals
WithKey(cfgs, k, vals) == cfgs \cup { Put(c, k, v) : c \in cfgs, v \in vals }

\* configs whose keys are among the three the bot stores
Configs ==
    WithKey(WithKey(WithKey({EmptyConfig}, "cheese_channel", Channels \cup {0}),
                    "cheese_time", {T0900, TQuoted, << >>}),
            "cheese_role_id", Roles)

\* the same object as json.dump(data, f) without indent writes it
CompactFile == TextFile(<< "{", Quote >> \o ConfigKeys[1].text \o << Quote, ":", " ", "1", "0", "2", "}" >>)

\* what config.json can hold when the process starts
ConfigFiles ==
    {NoFile, Malformed, Undecodable, TextFile(<< >>), CompactFile,
     TextFile(<< "{", Quote, "a", Quote, ":", " ", "1", ",", "}" >>),
     JsonFile([cheese_channel |-> 101, cheese_time |-> T0900])}

\* every outcome of open() and json.dump() in save_config
AllWriteOutcomes == WriteOutcomes \cup {"open_error"}

CfInit ==
    /\ config \in Configs
    /\ file \in ConfigFiles
    /\ clock = 0
    /\ next_iteration = 0
    /\ ticks = 0
    /\ posts = <<>>
    /\ lastTick = NoTick
    /\ running = TRUE
    /\ nr = NrIdle
    /\ rc = RcIdle
    /\ ex = ExIdle
    /\ cmd = CmdNone

\* save_config(config); cmd keeps what was saved and how the write went
SaveConfig ==
    /\ running
    /\ \E w \in AllWriteOutcomes :
         /\ file' = save_config(file, config, w)
         /\ cmd' = [name |-> "save_config", w |-> w, data |-> config]
    /\ UNCHANGED <<config, clock, next_iteration, ticks, posts, lastTick, running, nr, rc, ex>>

\* config = load_config() at import: an exception that load_config raises ends
\* the process before the client exists.  cmd keeps how the call ended, whether
\* it follows a save_config whose write succeeded, and the config before it.
LoadConfig ==
    /\ running
    /\ LET r == load_config(file)
       IN  /\ config' = IF r.kind = "return" THEN r.v ELSE config
           /\ running' = (r.kind = "return")
           /\ cmd' = [name |-> "load_config", kind |-> r.kind, exc |-> r.exc,
                      saved |-> cmd.name = "save_config" /\ cmd.w = "ok", was |-> config]
    /\ UNCHANGED <<file, clock, next_iteration, ticks, posts, lastTick, nr, rc, ex>>

CfNext == SaveConfig \/ LoadConfig

SpecConfig == CfInit /\ [][CfNext]_vars

(***************************************************************************)
(* Properties of load_config and save_config.                              *)
(***************************************************************************)
\* this step is the load_config() that follows a save_config whose write
\* succeeded
LoadAfterSave == LoadConfig /\ cmd.name = "save_config" /\ cmd.w = "ok"

\* C16: for every config over the three keys, save_config with a successful
\* write followed by load_config returns a config with the same key set and the
\* same value under every key.
C16_SaveLoadRoundTrip ==
    [][LoadAfterSave =>
           /\ cmd'.kind = "return"
           /\ DOMAIN config' = DOMAIN cmd.data
           /\ \A k \in DOMAIN cmd.data : config'[k] = cmd.data[k]]_vars

\* a config with all three keys, its time needing escapes, was saved and loaded
C16_Witness ==
    /\ cmd.name = "load_config" /\ cmd.saved /\ cmd.kind = "return"
    /\ DOMAIN config = {"cheese_channel", "cheese_time", "cheese_role_id"}
    /\ config["cheese_time"] = TQuoted

\* config.json is missing or its content is not the JSON text of an object
MissingOrMalformed(f) ==
    \/ f.kind = "missing"
    \/ f.kind = "bytes"
    \/ f.kind = "text" /\ ~json_load(f.text).ok

\* C17: when config.json is missing or its content is malformed, load_config
\* returns the empty config and the process goes on.
C17_MissingOrMalformedLoadsEmpty ==
    [][LoadConfig /\ MissingOrMalformed(file) =>
           running' /\ cmd'.kind = "return" /\ config' = EmptyConfig]_vars

\* the part of C17 that holds: a missing file, and a text that is no JSON,
\* load as the empty config
MissingOrNotJsonLoadsEmpty ==
    [][LoadConfig /\ MissingOrMalformed(file) /\ file.kind # "bytes" =>
           running' /\ cmd'.kind = "return" /\ config' = EmptyConfig]_vars

(***************************************************************************)
(* The four admin commands on a fresh installation, with their replies.     *)
(* cmd is the last command: who ran it (perm: with the permission the       *)
(* handler asks for), whether it called save_config and how the write went, *)
(* the title of the embed it replied with, and whether any write has failed *)
(* (failed) or any write was made (written) since the process started.      *)
(***************************************************************************)
\* config.json of an installation no admin command has run on
FreshFiles == {NoFile, Malformed, TextFile(<< >>), JsonFile(EmptyConfig)}

AdminIdle ==
    [name |-> "none", perm |-> FALSE, wrote |-> FALSE, w |-> "none", reply |-> "none",
     failed |-> FALSE, written |-> FALSE]

AdminCmd(name, perm, wrote, w, reply) ==
    [name |-> name, perm |-> perm, wrote |-> wrote, w |-> IF wrote THEN w ELSE "none",
     reply |-> reply,
     failed |-> cmd.failed \/ (wrote /\ w # "ok"),
     written |-> cmd.written \/ wrote]

AdInit ==
    /\ file \in FreshFiles
    /\ config = load_config(file).v
    /\ clock = 0
    /\ next_iteration = 0
    /\ ticks = 0
    /\ posts = <<>>
    /\ lastTick = NoTick
    /\ running = TRUE
    /\ nr = NrIdle
    /\ rc = RcIdle
    /\ ex = ExIdle
    /\ cmd = AdminIdle

AdminSetChannelWith(ch, perm, w) ==
    /\ SetCheeseChannel(ch, perm, w)
    /\ cmd' = AdminCmd("setcheesechannel", perm, perm, w,
                       IF perm THEN "Channel Set" ELSE "Permission Denied")
    /\ UNCHANGED <<clock, next_iteration, ticks, posts, lastTick, running, nr, rc, ex>>

AdminSetTimeWith(time, perm, w) ==
    /\ SetCheeseTime(time, perm, w)
    /\ cmd' = AdminCmd("setcheesetime", perm, perm /\ TimeAccepted(time), w,
                       IF ~perm THEN "Permission Denied"
                       ELSE IF TimeAccepted(time) THEN "Time Set"
                       ELSE "Invalid Time Format")
    /\ UNCHANGED <<clock, next_iteration, ticks, posts, lastTick, running, nr, rc, ex>>

AdminSetRoleWith(role, perm, w) ==
    /\ SetCheeseRole(role, perm, w)
    /\ cmd' = AdminCmd("setcheeserole", perm, perm, w,
                       IF perm THEN "Cheese Role Set" ELSE "Permission Denied")
    /\ UNCHANGED <<clock, next_iteration, ticks, posts, lastTick, running, nr, rc, ex>>

AdminRemoveRoleWith(perm, w) ==
    /\ RemoveCheeseRole(perm, w)
    /\ cmd' = AdminCmd("removecheeserole", perm, perm /\ "cheese_role_id" \in DOMAIN config, w,
                       IF ~perm THEN "Permission Denied"
                       ELSE IF "cheese_role_id" \in DOMAIN config THEN "Cheese Role Removed"
                       ELSE "No Role Set")
    /\ UNCHANGED <<clock, next_iteration, ticks, posts, lastTick, running, nr, rc, ex>>

AdminSetChannel ==
    \E ch \in Channels, perm \in BOOLEAN, w \in AllWriteOutcomes : AdminSetChannelWith(ch, perm, w)

AdminSetTime ==
    \E time \in TimeInputs, perm \in BOOLEAN, w \in AllWriteOutcomes : AdminSetTimeWith(time, perm, w)

T2359 == <<"2", "3", ":", "5", "9">>

T0060 == <<"0", "0", ":", "6", "0">>

\* int() takes the three digits, strptime does not
T00900 == <<"0", "0", "9", ":", "0", "0">>

\* what a user types as the time of /setcheesetime
SetTimeInputs == TimeInputs \cup {T0800, TJunk, T2359, T0060, T00900}

SetTimeInvocation ==
    \E time \in SetTimeInputs, perm \in BOOLEAN, w \in AllWriteOutcomes :
        AdminSetTimeWith(time, perm, w)

AdminSetRole ==
    \E role \in Roles, perm \in BOOLEAN, w \in AllWriteOutcomes : AdminSetRoleWith(role, perm, w)

AdminRemoveRole ==
    \E perm \in BOOLEAN, w \in AllWriteOutcomes : AdminRemoveRoleWith(perm, w)

AdNext == AdminSetChannel \/ AdminSetTime \/ AdminSetRole \/ AdminRemoveRole

SpecAdmin == AdInit /\ [][AdNext]_vars

\* /setcheesetime alone, invocation after invocation
StNext == SetTimeInvocation

SpecSetTime == AdInit /\ [][StNext]_vars

(***************************************************************************)
(* Properties of the admin commands.                                       *)
(***************************************************************************)
\* s splits on ":" into an hour in 0..23 and a minute in 0..59
ValidTimeString(s) ==
    /\ ParseTime(s).ok
    /\ ParseTime(s).hour \in 0..23
    /\ ParseTime(s).minute \in 0..59

\* cheese_time is unset or a valid time string
TimeUnsetOrValid(cfg) == "cheese_time" \in DOMAIN cfg => ValidTimeString(cfg["cheese_time"])

\* C18: from an empty config, after any sequence of /setcheesetime the stored
\* cheese_time is unset or splits on ":" into an hour in 0..23 and a minute in
\* 0..59, and a /setcheesetime with an invalid time string or by a user without
\* manage_channels leaves config and config.json as they were.
C18_StoredTimeValid ==
    /\ [](TimeUnsetOrValid(config))
    /\ [][\A time \in SetTimeInputs, perm \in BOOLEAN, w \in AllWriteOutcomes :
              (AdminSetTimeWith(time, perm, w) /\ (~perm \/ ~ValidTimeString(time)))
                  => UNCHANGED <<config, file>>]_vars

\* a time is stored, and the last /setcheesetime was refused for its time string
C18_Witness ==
    /\ "cheese_time" \in DOMAIN config
    /\ cmd.name = "setcheesetime" /\ cmd.reply = "Invalid Time Format"

\* the replies that report success
SuccessReplies == {"Channel Set", "Time Set", "Cheese Role Set", "Cheese Role Removed"}

\* the step is an admin command that called save_config with outcome w, and
\* config holds what the command set
WroteNewValue(w) ==
    \/ \E ch \in Channels :
           AdminSetChannelWith(ch, TRUE, w) /\ config' = Put(config, "cheese_channel", ch)
    \/ \E time \in TimeInputs :
           /\ AdminSetTimeWith(time, TRUE, w) /\ cmd'.wrote
           /\ config' = Put(config, "cheese_time", time)
    \/ \E role \in Roles :
           AdminSetRoleWith(role, TRUE, w) /\ config' = Put(config, "cheese_role_id", role)
    \/ /\ AdminRemoveRoleWith(TRUE, w) /\ cmd'.wrote
       /\ config' = Del(config, "cheese_role_id")

\* C20: while every write has succeeded, config.json holds the in-memory config
\* (exactly its JSON text once a command has written); a command whose write
\* fails still sets the new value in memory and replies with success.
C20_FileMatchesConfig ==
    /\ [](~cmd.failed =>
              /\ load_config(file).kind = "return" /\ load_config(file).v = config
              /\ cmd.written => file = JsonFile(config))
    /\ [][cmd'.wrote /\ cmd'.w # "ok" =>
              WroteNewValue(cmd'.w) /\ cmd'.reply \in SuccessReplies]_vars

\* a write failed, the command replied with success, and config.json no longer
\* loads as the in-memory config
C20_Witness ==
    /\ cmd.wrote /\ cmd.w # "ok" /\ cmd.reply \in SuccessReplies
    /\ load_config(file).v # config
    /\ config # EmptyConfig

(***************************************************************************)
(* The on-demand commands /dailycheese and /cheese, as they interleave with *)
(* the periodic task.  cmd is the last command: whether defer() went        *)
(* through, the fetches it called, the exception its try block raised, the  *)
(* messages that reached the user, the exception the sending of the error   *)
(* message raised, and the exception that left the handler.  The time the   *)
(* handler takes is not modelled here.                                     *)
(***************************************************************************)
\* What the network and the platform do during /dailycheese.
DailyCommandEnvs ==
    [defer   : {"ok", "fail"},
     daily   : {"ok", "RequestException", "ValueError"},
     details : {"ok", "RequestException", "AttributeError"},
     send    : {"ok", "fail"},
     errsend : {"ok", "fail"}]

\* What get_random_cheese() and the platform do during /cheese.
RandomCommandEnvs ==
    [defer   : {"ok", "fail"},
     random  : {"returned", "ValueError"},
     send    : {"ok", "fail"},
     errsend : {"ok", "fail"}]

\* except Exception that lets everything but a failed request through
HandlerCatchesRequestOnly(exc) == exc = "RequestException"

\* except Exception as e, around the body of the handler
HandlerCatches(exc) == TRUE

\* except Exception as followup_error, around the sending of the error message
ErrorSendCatches(exc) == TRUE

\* The handler from the fetches on: fetched is the number of fetch functions
\* called and fetch_exc what they raised ("none": details is there).  A send
\* that raises delivers nothing.
CommandRun(name, e, fetched, fetch_exc) ==
    LET deferred == e.defer = "ok"      \* interaction.response.is_done()
        try_exc  == IF ~deferred THEN "HTTPException"
                    ELSE IF fetch_exc # "none" THEN fetch_exc
                    ELSE IF e.send # "ok" THEN "HTTPException"
                    ELSE "none"
        base     == [name |-> name, deferred |-> deferred,
                     fetched |-> IF deferred THEN fetched ELSE 0,
                     caught |-> "none", replies |-> << >>, via |-> "none",
                     lost |-> "none", escaped |-> "none"]
    IN  IF try_exc = "none"
        THEN [base EXCEPT !.replies = << "success" >>, !.via = "followup"]
        ELSE IF ~HandlerCatches(try_exc) THEN [base EXCEPT !.escaped = try_exc]
        ELSE IF e.errsend = "ok"
        THEN [base EXCEPT !.caught = try_exc, !.replies = << "error" >>,
                          !.via = IF deferred THEN "followup" ELSE "response"]
        ELSE IF ErrorSendCatches("HTTPException")
        THEN [base EXCEPT !.caught = try_exc, !.lost = "HTTPException"]
        ELSE [base EXCEPT !.caught = try_exc, !.escaped = "HTTPException"]

\* /dailycheese
dailycheese ==
    /\ \E e \in DailyCommandEnvs :
         cmd' = CommandRun("dailycheese", e,
                           IF e.daily = "ok" THEN 2 ELSE 1,
                           IF e.daily # "ok" THEN e.daily
                           ELSE IF e.details # "ok" THEN e.details
                           ELSE "none")
    /\ UNCHANGED <<config, file, clock, next_iteration, ticks, posts, lastTick, running,
                   nr, rc, ex>>

\* /cheese
cheese ==
    /\ \E e \in RandomCommandEnvs :
         cmd' = CommandRun("cheese", e, 1,
                           IF e.random = "returned" THEN "none" ELSE e.random)
    /\ UNCHANGED <<config, file, clock, next_iteration, ticks, posts, lastTick, running,
                   nr, rc, ex>>

OdFiles == {NoFile, JsonFile([cheese_channel |-> 101, cheese_time |-> T0900])}

OdInit ==
    /\ file \in OdFiles
    /\ config = load_config(file).v
    /\ clock \in StartTimes
    /\ next_iteration = clock
    /\ ticks = 0
    /\ posts = <<>>
    /\ lastTick = NoTick
    /\ running = TRUE
    /\ nr = NrIdle
    /\ rc = RcIdle
    /\ ex = ExIdle
    /\ cmd = CmdNone

OdNext == Tick \/ dailycheese \/ cheese

SpecOnDemand == OdInit /\ [][OdNext]_vars

(***************************************************************************)
(* Properties of the on-demand commands.                                   *)
(***************************************************************************)
\* a command has run
CommandRan == cmd.name \in {"dailycheese", "cheese"}

\* this step is a command; the periodic task is as it was: alive, with the same
\* schedule and the same iterations behind it
TimerUntouched ==
    cmd' # cmd =>
        /\ running' /\ running' = running
        /\ next_iteration' = next_iteration /\ ticks' = ticks /\ posts' = posts

\* C15 as claimed: no exception leaves the handler, the user receives exactly
\* one of the success message and the error message, and the periodic task
\* keeps running.
C15_Original ==
    /\ [](CommandRan =>
              /\ cmd.escaped = "none"
              /\ cmd.replies \in {<< "success" >>, << "error" >>})
    /\ [][TimerUntouched]_vars

\* C15 as amended: no exception leaves the handler and the periodic task keeps
\* running; the user receives the success message when nothing was raised,
\* the error message when something was raised and the sending of the error
\* message went through, and nothing when that sending failed too.
C15_AtMostOneReply ==
    /\ [](CommandRan =>
              /\ cmd.escaped = "none"
              /\ cmd.replies \in {<< "success" >>, << "error" >>, << >>}
              /\ cmd.replies = << "success" >> <=> cmd.caught = "none"
              /\ cmd.replies = << "error" >> <=> (cmd.caught # "none" /\ cmd.lost = "none")
              /\ cmd.replies = << >> <=> cmd.lost # "none")
    /\ [][TimerUntouched]_vars

\* after an iteration of the periodic task, a command whose fetch failed and
\* whose error message could not be sent either
C15_Witness ==
    /\ CommandRan /\ cmd.deferred /\ cmd.caught = "RequestException"
    /\ cmd.lost = "HTTPException" /\ cmd.replies = << >>
    /\ ticks > 0 /\ running

(***************************************************************************)
(* get_random_cheese: failures of get_cheese_details inside the loop.      *)
(***************************************************************************)
DetailExceptions == {"RequestException", "AttributeError"}

\* this step's attempt called get_cheese_details, which raised
DetailFailed == AttemptStep /\ rc'.url # << >> /\ rc'.last \in DetailExceptions

\* the previous attempt called get_cheese_details, which raised
AfterDetailFailure ==
    AttemptStep /\ rc.url # << >> /\ rc.last \in DetailExceptions /\ rc.attempt > 0

\* the only exception the caller sees is the ValueError raised once max_retries
\* attempts are used up
OnlyExhaustedError ==
    rc.phase = "raised" => rc.exc = "ValueError" /\ rc.attempt = rc.max_retries

\* C19 as claimed: a failure of get_cheese_details is swallowed in the loop and
\* uses one attempt, the next attempt takes another letter, and the caller sees
\* only the exhausted error.
C19_Original ==
    /\ []OnlyExhaustedError
    /\ [][/\ DetailFailed => FailureSwallowed
          /\ AfterDetailFailure =>
                 rc'.picks[Len(rc'.picks)] # rc.picks[Len(rc.picks)]]_vars

\* C19 as amended: a failure of get_cheese_details is swallowed in the loop and
\* uses one attempt, the next attempt takes a letter not tried since the last
\* reset of the tried-set (another letter, unless the failed one was the last
\* untried letter), and the caller sees only the exhausted error.
C19_DetailFailureSwallowed ==
    /\ []OnlyExhaustedError
    /\ [][/\ DetailFailed => FailureSwallowed
          /\ AfterDetailFailure =>
                 /\ rc.attempted # letters =>
                        /\ rc'.picks[Len(rc'.picks)] \notin rc.attempted
                        /\ rc'.picks[Len(rc'.picks)] # rc.picks[Len(rc.picks)]
                 /\ rc.attempted = letters =>
                        rc'.attempted = {rc'.picks[Len(rc'.picks)]}]_vars

\* get_cheese_details raised while parsing, on the last untried letter, and
\* attempts remain
C19_Witness ==
    /\ rc.phase = "run" /\ rc.last = "AttributeError" /\ rc.url # << >>
    /\ rc.attempted = letters /\ rc.attempt < rc.max_retries

====
